---- MODULE Spec2Model ----
(***************************************************************************)
(* Model of the On-Demand.io workflow integration: the workflow manager    *)
(* (app/core/ondemand_workflows.py) and the HTTP routes that drive it      *)
(* (app/api/routes/workflows.py).                                          *)
(*                                                                         *)
(* A Python string is a sequence of tokens.  Contract code is modelled     *)
(* character by character ("x" and " "), a literal chunk of an f-string    *)
(* template is one token, and an answer of the remote service is a short   *)
(* token sequence.  "s contains t verbatim" is sub-sequence containment.   *)
(***************************************************************************)
EXTENDS Integers, Sequences, FiniteSets, TLC

\* ------------------------------------------------------------------ bounds
\* number of concurrent route invocations of the richest specification
NumExecs == 2
\* leading / trailing whitespace of a generated contract_code, 0..MaxPad
MaxPad == 1
\* number of distinct answer texts the remote service may return
NumAnswers == 3

\* ------------------------------------------------- program constants
\* the minimum length of the stripped contract_code (routes, execute_workflow)
MinContent == 10
\* the steps_completed value every execute_* method returns
StepsCompleted == 4

\* "workflows_available": 3 in the response of workflows_health
WorkflowsAvailable == 3

\* ------------------------------------------------------------ strings
None == "None"

RECURSIVE Repeat(_, _)
Repeat(tok, n) == IF n = 0 THEN << >> ELSE <<tok>> \o Repeat(tok, n - 1)

IsSpace(c) == c = " "

\* str.strip(): drops leading and trailing whitespace only
RECURSIVE LStrip(_)
LStrip(s) == IF s # << >> /\ IsSpace(Head(s)) THEN LStrip(Tail(s)) ELSE s

RECURSIVE RStrip(_)
RStrip(s) ==
    IF s # << >> /\ IsSpace(s[Len(s)]) THEN RStrip(SubSeq(s, 1, Len(s) - 1)) ELSE s

Strip(s) == RStrip(LStrip(s))

\* t occurs in s as a contiguous run (Python: t in s); "" occurs in everything
Contains(s, t) ==
    \E i \in 1..(Len(s) + 1) :
        /\ i + Len(t) - 1 <= Len(s)
        /\ \A j \in 1..Len(t) : s[i + j - 1] = t[j]

\* sep.join(xs) for a list of one-token strings
RECURSIVE Join(_, _)
Join(sep, xs) ==
    IF xs = << >> THEN << >>
    ELSE IF Len(xs) = 1 THEN <<xs[1]>>
    ELSE <<xs[1]>> \o sep \o Join(sep, Tail(xs))

\* ------------------------------------------------------------ catalog
Step(agent, task) == [agent |-> agent, task |-> task]

\* class attribute ENDPOINTS: endpoint name -> endpoint identifier
ENDPOINTS ==
    [gpt4o  |-> "predefined-openai-gpt4o",
     claude |-> "predefined-anthropic-claude-sonnet",
     grok   |-> "predefined-xai-grok4.1-fast",
     gemini |-> "predefined-google-gemini-2.0-flash"]

\* insertion order of the WORKFLOWS dict (Python dicts keep it)
WORKFLOW_ORDER == <<"dna_profiler", "exploit_oracle", "threat_mesh">>

\* class attribute WORKFLOWS: the three workflow definitions
WORKFLOWS ==
    [dna_profiler |->
        [id |-> "dna_profiler",
         name |-> "Smart Contract DNA Profiler",
         tagline |-> "Genetic fingerprinting for blockchain code",
         description |-> "Creates a unique genetic fingerprint of any smart contract",
         icon |-> "dna", gradient |-> "linear-gradient(135deg, #00d4aa ...)",
         steps |-> <<Step("Code Analyzer", "Extract structural DNA"),
                     Step("Vulnerability Scanner", "Identify risk markers"),
                     Step("Pattern Matcher", "Match against known strains"),
                     Step("DNA Synthesizer", "Generate unique fingerprint")>>,
         output_format |-> <<"dna_sequence", "risk_markers", "similarity_matches",
                             "mutation_probability", "evolutionary_tree">>],
     exploit_oracle |->
        [id |-> "exploit_oracle",
         name |-> "Predictive Exploit Oracle",
         tagline |-> "See the future of smart contract attacks",
         description |-> "AI-powered oracle that predicts potential future exploits",
         icon |-> "oracle", gradient |-> "linear-gradient(135deg, #667eea ...)",
         steps |-> <<Step("Historical Analyst", "Analyze past exploits"),
                     Step("Vulnerability Mapper", "Map current weaknesses"),
                     Step("Attack Simulator", "Simulate attack vectors"),
                     Step("Future Predictor", "Generate exploit predictions")>>,
         output_format |-> <<"predicted_exploits", "attack_probability",
                             "time_to_exploit", "prevention_steps",
                             "similar_past_attacks">>],
     threat_mesh |->
        [id |-> "threat_mesh",
         name |-> "Cross-Chain Threat Mesh",
         tagline |-> "Multi-dimensional blockchain security",
         description |-> "Analyzes security across multiple blockchain ecosystems",
         icon |-> "mesh", gradient |-> "linear-gradient(135deg, #f093fb ...)",
         steps |-> <<Step("Chain Analyzer", "Scan multiple chains"),
                     Step("Bridge Inspector", "Analyze cross-chain bridges"),
                     Step("Pattern Correlator", "Correlate attack patterns"),
                     Step("Mesh Generator", "Create threat mesh map")>>,
         output_format |-> <<"threat_map", "chain_risk_scores",
                             "bridge_vulnerabilities", "correlated_attacks",
                             "mesh_visualization">>]]

\* chains = ... or ["aptos", "ethereum", "solana", "sui", "arbitrum"]
DEFAULT_CHAINS == <<"aptos", "ethereum", "solana", "sui", "arbitrum">>

\* --------------------------------------------------- prompt templates
\* One f-string is a sequence of parts: a literal chunk, or an interpolation
\* of language, of contract_code, of the joined chains, or of the answer
\* extracted from an earlier step result (a line break is written /).
Lit(text)  == [k |-> "lit", v |-> text, n |-> 0]
LangPart   == [k |-> "language", v |-> "", n |-> 0]
CodePart   == [k |-> "contract_code", v |-> "", n |-> 0]
ChainsPart == [k |-> "chains", v |-> "", n |-> 0]
AnsPart(n) == [k |-> "answer", v |-> "", n |-> n]

dna_step1_prompt ==
    <<Lit("You are a Smart Contract DNA Analyzer. Extract the structural DNA of this "),
      LangPart, Lit(" smart contract. ... Contract Code: [fence]"), LangPart, Lit("/"),
      CodePart, Lit("/[fence] Respond in JSON format: {function_genes ...}")>>

dna_step2_prompt ==
    <<Lit("You are a Vulnerability Gene Scanner. ... Previous DNA Analysis: "),
      AnsPart(1), Lit(" Scan for these vulnerability genes: ... overall_risk_dna")>>

\* variant of dna_step3_prompt: the structural DNA of step 1 is left out
dna_step3_prompt_unchained ==
    <<Lit("You are a Contract Pattern Matcher. ... Contract DNA Profile:/"),
      Lit("//Risk Markers:/"), AnsPart(2),
      Lit(" Identify similarities to: ... mutation_from_standard")>>

dna_step3_prompt ==
    <<Lit("You are a Contract Pattern Matcher. ... Contract DNA Profile:/"),
      AnsPart(1), Lit("//Risk Markers:/"), AnsPart(2),
      Lit(" Identify similarities to: ... mutation_from_standard")>>

dna_step4_prompt ==
    <<Lit("You are a DNA Fingerprint Synthesizer. ... Structural DNA: "),
      AnsPart(1), Lit("/Risk Markers: "), AnsPart(2), Lit("/Strain Matches: "),
      AnsPart(3), Lit(" Create a unique DNA fingerprint ... overall_health")>>

oracle_step1_prompt ==
    <<Lit("You are a Blockchain Attack Historian. Analyze this "), LangPart,
      Lit(" smart contract ... HISTORICAL EXPLOITS. Contract Code: [fence]"), LangPart,
      Lit("/"), CodePart,
      Lit("/[fence] Compare against major historical exploits: ... attack_surface_area")>>

oracle_step2_prompt ==
    <<Lit("You are a Vulnerability Cartographer. ... Historical Analysis: "),
      AnsPart(1), Lit(" Contract Code: [fence]"), LangPart, Lit("/"), CodePart,
      Lit("/[fence] Map vulnerabilities by category: ... requires_conditions")>>

oracle_step3_prompt ==
    <<Lit("You are an Attack Simulator. ... Vulnerability Map: "), AnsPart(2),
      Lit("/Historical Patterns: "), AnsPart(1),
      Lit(" For each viable attack vector, simulate: ... total_risk_value")>>

oracle_step4_prompt ==
    <<Lit("You are the Predictive Exploit Oracle. ... Historical Analysis: "),
      AnsPart(1), Lit("/Vulnerability Map: "), AnsPart(2),
      Lit("/Attack Simulations: "), AnsPart(3),
      Lit(" Generate predictions for the next 30, 60, 90 days: ... oracle_confidence")>>

mesh_step1_prompt ==
    <<Lit("You are a Multi-Chain Security Analyst. ... Contract Code ("), LangPart,
      Lit("): [fence]"), LangPart, Lit("/"), CodePart,
      Lit("/[fence] Analyze for compatibility and risks on these chains: "), ChainsPart,
      Lit(" For each chain context, evaluate: ... cross_chain_deployment_risk")>>

mesh_step2_prompt ==
    <<Lit("You are a Cross-Chain Bridge Security Expert. ... Multi-Chain Analysis: "),
      AnsPart(1), Lit(" Contract Code: [fence]"), LangPart, Lit("/"), CodePart,
      Lit("/[fence] Analyze bridge risks for: ... cross_chain_risk_score")>>

mesh_step3_prompt ==
    <<Lit("You are a Cross-Chain Attack Pattern Analyst. ... Chain Analysis: "),
      AnsPart(1), Lit("/Bridge Analysis: "), AnsPart(2),
      Lit(" Identify: ... multi_chain_risk_matrix")>>

mesh_step4_prompt ==
    <<Lit("You are a Threat Mesh Architect. ... Chain Analysis: "), AnsPart(1),
      Lit("/Bridge Vulnerabilities: "), AnsPart(2), Lit("/Correlated Patterns: "),
      AnsPart(3), Lit(" Create a threat mesh that shows: ... visualization_data")>>

\* the prompt templates of each execute_* method, in the order of its awaits
PromptTemplates(pipeline) ==
    CASE pipeline = "dna_profiler" ->
            <<dna_step1_prompt, dna_step2_prompt, dna_step3_prompt, dna_step4_prompt>>
      [] pipeline = "exploit_oracle" ->
            <<oracle_step1_prompt, oracle_step2_prompt, oracle_step3_prompt,
              oracle_step4_prompt>>
      [] pipeline = "threat_mesh" ->
            <<mesh_step1_prompt, mesh_step2_prompt, mesh_step3_prompt,
              mesh_step4_prompt>>

\* the endpoint name each _submit_query call passes, in the order of the awaits
StepEndpoints(pipeline) ==
    CASE pipeline = "dna_profiler"   -> <<"gpt4o", "claude", "gemini", "gpt4o">>
      [] pipeline = "exploit_oracle" -> <<"claude", "gpt4o", "grok", "gpt4o">>
      [] pipeline = "threat_mesh"    -> <<"gpt4o", "claude", "grok", "gemini">>

\* the keys of the "results" dict each execute_* method returns, in order
ResultFields(pipeline) ==
    CASE pipeline = "dna_profiler" ->
            <<"structural_dna", "risk_markers", "strain_matches", "dna_fingerprint">>
      [] pipeline = "exploit_oracle" ->
            <<"historical_analysis", "vulnerability_map", "attack_simulations",
              "exploit_predictions">>
      [] pipeline = "threat_mesh" ->
            <<"chain_analysis", "bridge_vulnerabilities", "correlated_patterns",
              "threat_mesh">>

\* ------------------------------------------------- response envelopes
\* What the remote service can answer to POST .../query:
\*   http_error  a non-success status: response.raise_for_status() raises
\*   timeout     no response within the client timeout: httpx raises
\*   ok          a JSON object whose data.answer is the answer text
\*   no_answer   a JSON object without data.answer (an empty object, or one
\*               whose data is an empty object)
\*   null_data   a JSON object whose data is null
Envelope(kind, answer) == [kind |-> kind, answer |-> answer]

\* the chained get calls with their defaults: the answer, or the empty string
Answer(env) == IF env.kind = "ok" THEN env.answer ELSE << >>

\* None.get(...) raises AttributeError
ExtractRaises(env) == env.kind = "null_data"

RenderPart(p, language, contract_code, chains, results) ==
    CASE p.k = "lit"           -> <<p.v>>
      [] p.k = "language"      -> language
      [] p.k = "contract_code" -> contract_code
      [] p.k = "chains"        -> Join(<<", ">>, chains)
      [] p.k = "answer"        -> Answer(results[p.n])

\* evaluation of the f-string: the parts rendered and concatenated
RECURSIVE Render(_, _, _, _, _)
Render(tpl, language, contract_code, chains, results) ==
    IF tpl = << >> THEN << >>
    ELSE RenderPart(Head(tpl), language, contract_code, chains, results)
         \o Render(Tail(tpl), language, contract_code, chains, results)

\* the f-string raises when an interpolated result has data = None
RenderRaises(tpl, results) ==
    \E i \in 1..Len(tpl) : tpl[i].k = "answer" /\ ExtractRaises(results[tpl[i].n])

\* ------------------------------------------------------------- inputs
Execs == 1..NumExecs

\* path parameter of the generic routes: the three catalog ids and two others
WorkflowIds ==
    {"dna_profiler", "exploit_oracle", "threat_mesh", "unknown_flow", "DNA_PROFILER"}

\* request.contract_code: a body of x characters between runs of blanks, and
\* one text with a blank inside
ContractCodes ==
    { Repeat(" ", a) \o Repeat("x", b) \o Repeat(" ", c) :
        a \in 0..MaxPad, c \in 0..MaxPad, b \in {0, MinContent - 1, MinContent} }
    \cup { Repeat("x", MinContent - 2) \o <<" ", "x">> }

\* request.language
Languages == { <<"move">>, <<"solidity">> }

\* Optional[List[str]]: None, or a list
NoChains == [present |-> FALSE, list |-> << >>]
SomeChains(list) == [present |-> TRUE, list |-> list]

\* request.chains: absent (None), an empty list, a list of chain names
ChainInputs == { NoChains, SomeChains(<< >>), SomeChains(<<"sui", "aptos">>) }

\* the answer texts of the remote service: R1, R2, ...
AnswerTexts == { <<"R", ToString(i)>> : i \in 1..NumAnswers }

\* what the remote service can answer to a query
Envelopes ==
    { Envelope(k, << >>) : k \in {"http_error", "timeout", "no_answer", "null_data"} }
    \cup { Envelope("ok", a) : a \in AnswerTexts }

\* what the remote service can answer to POST /sessions: a session id, a
\* non-success status, nothing in time, or a JSON body without data.id
SessionReplyKinds == {"ok", "http_error", "timeout", "no_id"}

\* -------------------------------------------------------------- state
VARIABLES
    active,        \* how many route invocations this run admits
    uniform,       \* whether every invocation carries the same request body
    catalog_reply, \* the response of the last GET route served
    workflows,     \* OnDemandWorkflowManager.WORKFLOWS
    sessions,      \* workflow_manager.sessions
    pc,            \* per invocation: idle, create_session, submit_query, done
    request,       \* per invocation: the route and its WorkflowExecuteRequest
    frame,         \* per invocation: the locals of the running execute_* method
    response,      \* per invocation: the HTTP response of the route
    inflight,      \* remote calls sent and not yet answered
    log,           \* every remote call and reply, in order
    next_session,  \* the remote service's session counter
    clock          \* datetime.now(), a logical clock

vars == <<active, uniform, catalog_reply, workflows, sessions, pc, request, frame,
          response, inflight, log, next_session, clock>>

NoRequest ==
    [route |-> None, workflow_id |-> None, contract_code |-> << >>,
     language |-> << >>, chains |-> NoChains]

NoFrame ==
    [pipeline |-> None, contract_code |-> << >>, language |-> << >>,
     chains |-> NoChains, session_id |-> None, results |-> << >>]

NoResponse ==
    [status |-> 0, keys |-> {}, success |-> FALSE, detail |-> << >>,
     workflow |-> None, workflow_id |-> None, workflow_name |-> None,
     execution_time |-> 0, steps_completed |-> 0, results |-> << >>,
     session_id |-> None, chains_analyzed |-> << >>]

\* no GET route served yet
NoCatalogReply ==
    [route |-> None, path |-> None, workflow_id |-> None, status |-> 0, keys |-> {},
     success |-> FALSE, workflows |-> << >>, total |-> 0, workflow |-> << >>,
     detail |-> << >>, health |-> None, workflows_available |-> 0,
     api_connected |-> FALSE]

\* the request bodies and replies of a run: any of the inputs above, or under
\* uniform load one body (a contract of MinContent characters, no chains);
\* when two invocations run under uniform load the remote service answers a
\* create-session call with a session id or an error status and a query with
\* one of two answer texts
RequestIds == IF uniform THEN {"dna_profiler", "unknown_flow"} ELSE WorkflowIds

RequestCodes == IF uniform THEN {Repeat("x", MinContent)} ELSE ContractCodes

RequestLanguages == IF uniform THEN {<<"move">>} ELSE Languages

RequestChains == IF uniform THEN {NoChains} ELSE ChainInputs

SessionReplies ==
    IF uniform /\ active > 1 THEN {"ok", "http_error"} ELSE SessionReplyKinds

QueryReplies ==
    IF uniform /\ active > 1
    THEN {Envelope("ok", <<"R", "1">>), Envelope("ok", <<"R", "2">>)}
    ELSE Envelopes

\* ---------------------------------------------------------- exceptions
CHAT_BASE_URL == "https://api.on-demand.io/chat/v1"

SessionsUrl == <<CHAT_BASE_URL, "/sessions">>
QueryUrl(session_id) == <<CHAT_BASE_URL, "/sessions/", session_id, "/query">>

\* str(e) of what a remote call raises.  raise_for_status names the URL of the
\* request in its message; the message of a timeout names no URL; the lookup
\* data -> id of a body without it raises KeyError; get on None raises
\* AttributeError.
ExcMessage(kind, url) ==
    CASE kind = "http_error" -> <<"Server error for url ">> \o url
      [] kind = "timeout"    -> << >>
      [] kind = "no_id"      -> <<"KeyError data">>
      [] kind = "null_data"  -> <<"NoneType object has no attribute get">>

\* the detail prefix of each route's except clause
FailurePrefix(route) ==
    CASE route = "execute_workflow"   -> <<"Workflow execution failed: ">>
      [] route = "run_dna_profiler"   -> <<"DNA Profiler failed: ">>
      [] route = "run_exploit_oracle" -> <<"Exploit Oracle failed: ">>
      [] route = "run_threat_mesh"    -> <<"Threat Mesh failed: ">>

\* raise HTTPException(status_code=..., detail=...)
HTTPException(status, detail) ==
    [NoResponse EXCEPT !.status = status, !.keys = {"detail"}, !.detail = detail]

\* except Exception as e: raise HTTPException(500, prefix + str(e))
RouteFailure(route, message) == HTTPException(500, FailurePrefix(route) \o message)

\* ------------------------------------------------------------ manager
\* variant of get_workflow: the lookup falls back to the first definition
get_workflow_with_default(workflow_id) ==
    IF workflow_id \in DOMAIN workflows
    THEN <<workflows[workflow_id]>> ELSE <<workflows[WORKFLOW_ORDER[1]]>>

\* variant of get_workflow: the id is matched without regard to case
get_workflow_any_case(workflow_id) ==
    IF workflow_id \in DOMAIN workflows THEN <<workflows[workflow_id]>>
    ELSE IF workflow_id = "DNA_PROFILER" THEN <<workflows["dna_profiler"]>>
    ELSE << >>

\* get_workflow: WORKFLOWS.get(workflow_id); an Optional is a sequence of
\* no element (None) or one
get_workflow(workflow_id) ==
    IF workflow_id \in DOMAIN workflows THEN <<workflows[workflow_id]>> ELSE << >>

\* get_all_workflows: one summary per definition, in the order of the dict
get_all_workflows ==
    LET ids == SelectSeq(WORKFLOW_ORDER, LAMBDA id : id \in DOMAIN workflows)
    IN [i \in 1..Len(ids) |->
           [id |-> workflows[ids[i]].id,
            name |-> workflows[ids[i]].name,
            tagline |-> workflows[ids[i]].tagline,
            description |-> workflows[ids[i]].description,
            icon |-> workflows[ids[i]].icon,
            gradient |-> workflows[ids[i]].gradient,
            steps |-> workflows[ids[i]].steps]]

\* variant of WorkflowsAfterGet: the lookup pops the definition
WorkflowsAfterPop(workflow_id) ==
    [id \in DOMAIN workflows \ {workflow_id} |-> workflows[id]]

\* WORKFLOWS after WORKFLOWS.get(workflow_id): dict.get leaves the dict as it is
WorkflowsAfterGet(workflow_id) == workflows

\* variant of SessionsAfterCreate: the new session id is kept in self.sessions
SessionsAfterCreateStored(session_id) == sessions \cup {session_id}

\* self.sessions after _create_session: the id is returned and stored nowhere
SessionsAfterCreate(session_id) == sessions

\* kwargs.get(key, default)
KwargsGet(kwargs, key, default) ==
    IF key \in DOMAIN kwargs THEN kwargs[key] ELSE default

\* variant of ChainsOrDefault: only None is replaced, an empty list is kept
ChainsOrDefaultNoneOnly(chains) ==
    IF chains.present THEN chains ELSE SomeChains(DEFAULT_CHAINS)

\* chains or [the five default chains]: None and the empty list are falsy
ChainsOrDefault(chains) ==
    IF chains.present /\ chains.list # << >> THEN chains ELSE SomeChains(DEFAULT_CHAINS)

\* variant of Dispatch: the elif branch of threat_mesh is missing
DispatchWithoutMesh(workflow_id, kwargs) ==
    IF workflow_id = "dna_profiler" THEN
        [pipeline |-> "dna_profiler", chains |-> NoChains]
    ELSE IF workflow_id = "exploit_oracle" THEN
        [pipeline |-> "exploit_oracle", chains |-> NoChains]
    ELSE [pipeline |-> "ValueError", chains |-> NoChains]

\* the if / elif chain of OnDemandWorkflowManager.execute_workflow: the
\* method it awaits and the chains it passes, or ValueError
Dispatch(workflow_id, kwargs) ==
    IF workflow_id = "dna_profiler" THEN
        [pipeline |-> "dna_profiler", chains |-> NoChains]
    ELSE IF workflow_id = "exploit_oracle" THEN
        [pipeline |-> "exploit_oracle", chains |-> NoChains]
    ELSE IF workflow_id = "threat_mesh" THEN
        [pipeline |-> "threat_mesh",
         chains |-> KwargsGet(kwargs, "chains", SomeChains(DEFAULT_CHAINS))]
    ELSE [pipeline |-> "ValueError", chains |-> NoChains]

\* variant of EndpointId: the endpoint name is sent as it is
EndpointIdUnresolved(endpoint) == endpoint

\* variant of EndpointId: every query goes to the fallback endpoint
EndpointIdAlwaysFallback(endpoint) == ENDPOINTS["gpt4o"]

\* _submit_query: ENDPOINTS.get(endpoint, ENDPOINTS["gpt4o"])
EndpointId(endpoint) ==
    IF endpoint \in DOMAIN ENDPOINTS THEN ENDPOINTS[endpoint] ELSE ENDPOINTS["gpt4o"]

\* variant of QuerySession: the session id is kept on the shared manager, so a
\* query goes to the session created last
QuerySessionShared(f) ==
    IF next_session > 1 THEN ToString(next_session - 1) ELSE f.session_id

\* the session_id argument of a _submit_query call: the local of the method
QuerySession(f) == f.session_id

\* one entry of the log of remote traffic
Event(ev, e, step, session_id, endpoint_id, prompt, reply) ==
    [ev |-> ev, exec |-> e, step |-> step, session_id |-> session_id,
     endpoint_id |-> endpoint_id, prompt |-> prompt, reply |-> reply, at |-> clock]

NoReply == Envelope(None, << >>)

Call(e, op, step) == [exec |-> e, op |-> op, step |-> step]

\* variant of StepPrompt: the prompt is stamped with the time of composition
StepPromptTimestamped(f, k) ==
    Render(PromptTemplates(f.pipeline)[k], f.language, f.contract_code,
           f.chains.list, f.results) \o <<ToString(clock)>>

\* the prompt of step k, from the locals of the execute_* method
StepPrompt(f, k) ==
    Render(PromptTemplates(f.pipeline)[k], f.language, f.contract_code,
           f.chains.list, f.results)

\* the "results" dict of the return statement: field name and extracted answer
ResultsDict(f) ==
    [i \in 1..Len(ResultFields(f.pipeline)) |->
        <<ResultFields(f.pipeline)[i], Answer(f.results[i])>>]

\* the return statement raises when an extraction does
ReturnRaises(f) ==
    \E i \in 1..Len(ResultFields(f.pipeline)) : ExtractRaises(f.results[i])

\* variant of ExecutionResult: steps_completed counts one step too few
ExecutionResultMiscounted(f, now) ==
    [workflow |-> workflows[f.pipeline].name,
     workflow_id |-> f.pipeline,
     execution_time |-> now,
     steps_completed |-> StepsCompleted - 1,
     chains_analyzed |-> f.chains.list,
     results |-> ResultsDict(f),
     session_id |-> f.session_id]

\* variant of ExecutionResult: the result carries no session id
ExecutionResultWithoutSession(f, now) ==
    [workflow |-> workflows[f.pipeline].name,
     workflow_id |-> f.pipeline,
     execution_time |-> now,
     steps_completed |-> StepsCompleted,
     chains_analyzed |-> f.chains.list,
     results |-> ResultsDict(f),
     session_id |-> None]

\* variant of ExecutionResult: execution_time is the time the session was
\* created at
ExecutionResultStampedAtSession(f, now) ==
    [workflow |-> workflows[f.pipeline].name,
     workflow_id |-> f.pipeline,
     execution_time |->
        LET i == CHOOSE i \in DOMAIN log :
                    log[i].ev = "session_reply" /\ log[i].session_id = f.session_id
        IN log[i].at,
     steps_completed |-> StepsCompleted,
     chains_analyzed |-> f.chains.list,
     results |-> ResultsDict(f),
     session_id |-> f.session_id]

\* the dict an execute_* method returns
ExecutionResult(f, now) ==
    [workflow |-> workflows[f.pipeline].name,
     workflow_id |-> f.pipeline,
     execution_time |-> now,
     steps_completed |-> StepsCompleted,
     chains_analyzed |-> f.chains.list,
     results |-> ResultsDict(f),
     session_id |-> f.session_id]

\* ------------------------------------------------------------- routes
\* the success body of the generic route execute_workflow
GenericSuccess(workflow_id, workflow, result) ==
    [NoResponse EXCEPT
        !.status = 200,
        !.keys = {"success", "workflow_id", "workflow_name", "execution_time",
                  "steps_completed", "results"},
        !.success = TRUE,
        !.workflow_id = workflow_id,
        !.workflow_name = workflow.name,
        !.execution_time = result.execution_time,
        !.steps_completed = result.steps_completed,
        !.results = result.results]

\* the success body of the pipeline routes: success plus the whole result
SpecificSuccess(pipeline, result) ==
    [NoResponse EXCEPT
        !.status = 200,
        !.keys = {"success", "workflow", "workflow_id", "execution_time",
                  "steps_completed", "results", "session_id"}
                 \cup (IF pipeline = "threat_mesh" THEN {"chains_analyzed"} ELSE {}),
        !.success = TRUE,
        !.workflow = result.workflow,
        !.workflow_id = result.workflow_id,
        !.execution_time = result.execution_time,
        !.steps_completed = result.steps_completed,
        !.results = result.results,
        !.session_id = result.session_id,
        !.chains_analyzed =
            IF pipeline = "threat_mesh" THEN result.chains_analyzed ELSE << >>]

\* what the awaiting route returns for the result of the manager
RouteSuccess(req, result) ==
    IF req.route = "execute_workflow"
    THEN GenericSuccess(req.workflow_id, get_workflow(req.workflow_id)[1], result)
    ELSE SpecificSuccess(result.workflow_id, result)

\* variant of TooShort: the length is taken without strip()
TooShortUnstripped(contract_code) ==
    contract_code = << >> \/ Len(contract_code) < MinContent

\* the minimum-content check of the generic route
TooShort(contract_code) ==
    contract_code = << >> \/ Len(Strip(contract_code)) < MinContent

\* variant of Respond: the response is set and the handler does not return
RespondAndStay(e, resp) ==
    /\ response' = [response EXCEPT ![e] = resp]
    /\ pc' = pc

\* variant of RouteRejection: the content is checked before the lookup
RouteRejectionContentFirst(workflow_id, contract_code) ==
    IF TooShort(contract_code) THEN
        <<HTTPException(400, <<"Contract code is required and must be substantial">>)>>
    ELSE IF get_workflow(workflow_id) = << >> THEN
        <<HTTPException(404, <<"Workflow ", workflow_id, " not found">>)>>
    ELSE << >>

\* the two checks the generic route makes before its try block, in their
\* order: the HTTPException raised, or nothing
RouteRejection(workflow_id, contract_code) ==
    IF get_workflow(workflow_id) = << >> THEN
        <<HTTPException(404, <<"Workflow ", workflow_id, " not found">>)>>
    ELSE IF TooShort(contract_code) THEN
        <<HTTPException(400, <<"Contract code is required and must be substantial">>)>>
    ELSE << >>

\* the route answers: the invocation is over
Respond(e, resp) ==
    /\ response' = [response EXCEPT ![e] = resp]
    /\ pc' = [pc EXCEPT ![e] = "done"]

\* an execute_* method is entered and runs to its first await: the POST of
\* _create_session is sent
EnterPipeline(e, pipeline, req, chains) ==
    /\ frame' = [frame EXCEPT ![e] =
            [pipeline |-> pipeline, contract_code |-> req.contract_code,
             language |-> req.language, chains |-> chains,
             session_id |-> None, results |-> << >>]]
    /\ inflight' = inflight \cup {Call(e, "create_session", 0)}
    /\ log' = Append(log, Event("create_session", e, 0, None, None, << >>, NoReply))
    /\ pc' = [pc EXCEPT ![e] = "create_session"]
    /\ UNCHANGED response

\* POST /api/workflows/{workflow_id}/execute
ExecuteWorkflowRoute(e) ==
    /\ pc[e] = "idle" /\ e <= active
    /\ \E wid \in RequestIds, code \in RequestCodes, lang \in RequestLanguages,
          ch \in RequestChains :
        LET req == [route |-> "execute_workflow", workflow_id |-> wid,
                    contract_code |-> code, language |-> lang, chains |-> ch]
            target == Dispatch(wid, [chains |-> ch])
        IN /\ request' = [request EXCEPT ![e] = req]
           /\ IF RouteRejection(wid, code) # << >> THEN
                  /\ Respond(e, RouteRejection(wid, code)[1])
                  /\ UNCHANGED <<frame, inflight, log>>
              ELSE IF target.pipeline = "ValueError" THEN
                  /\ Respond(e, RouteFailure("execute_workflow",
                         <<"Unknown workflow: ", wid>>))
                  /\ UNCHANGED <<frame, inflight, log>>
              ELSE EnterPipeline(e, target.pipeline, req, target.chains)
    /\ clock' = clock + 1
    /\ UNCHANGED <<active, uniform, catalog_reply, workflows, sessions, next_session>>

\* the body shared by the three pipeline routes: no lookup and no check of
\* the input, the execute_* method is awaited at once
RunPipelineRoute(e, route, pipeline) ==
    /\ pc[e] = "idle" /\ e <= active
    /\ \E code \in RequestCodes, lang \in RequestLanguages, ch \in RequestChains :
        LET req == [route |-> route, workflow_id |-> None, contract_code |-> code,
                    language |-> lang, chains |-> ch]
        IN /\ request' = [request EXCEPT ![e] = req]
           /\ EnterPipeline(e, pipeline, req,
                 IF pipeline = "threat_mesh" THEN ChainsOrDefault(ch) ELSE NoChains)
    /\ clock' = clock + 1
    /\ UNCHANGED <<active, uniform, catalog_reply, workflows, sessions, next_session>>

\* POST /api/workflows/dna-profiler
RunDnaProfiler(e) == RunPipelineRoute(e, "run_dna_profiler", "dna_profiler")

\* POST /api/workflows/exploit-oracle
RunExploitOracle(e) == RunPipelineRoute(e, "run_exploit_oracle", "exploit_oracle")

\* POST /api/workflows/threat-mesh
RunThreatMesh(e) == RunPipelineRoute(e, "run_threat_mesh", "threat_mesh")

\* ---------------------------------------------- the awaits of execute_*
\* variant of Settle: the method runs on while the call is still outstanding
SettleNotAwaited(calls, call) == calls

\* the awaited call has returned: it is no longer outstanding
Settle(calls, call) == calls \ {call}

\* variant of CreateSessionRaises: the id is read with defaults, so a body
\* without data.id does not raise
CreateSessionRaisesLenient(kind) == kind \in {"http_error", "timeout"}

\* _create_session raises: raise_for_status on a non-success status, the
\* client timeout, or the lookup of data and id in a body without them
CreateSessionRaises(kind) == kind # "ok"

\* _submit_query raises: raise_for_status on a non-success status, or the
\* client timeout; any JSON body is returned as it is
SubmitQueryRaises(env) == env.kind \in {"http_error", "timeout"}

\* the session id the remote service hands out next
SessionId(n) == ToString(n)

\* await self._create_session() returns or raises; on a session id the method
\* runs on to its next await, the _submit_query of step 1
SessionReply(e) ==
    /\ pc[e] = "create_session"
    /\ Call(e, "create_session", 0) \in inflight
    /\ \E kind \in SessionReplies :
        LET f == frame[e]
            sid == SessionId(next_session)
            f1 == [f EXCEPT !.session_id = sid,
                            !.chains = IF f.pipeline = "threat_mesh"
                                       THEN ChainsOrDefault(f.chains) ELSE f.chains]
            reply == Event("session_reply", e, 0,
                           IF kind = "ok" THEN sid ELSE None, None, << >>,
                           Envelope(kind, << >>))
            endpoint == StepEndpoints(f.pipeline)[1]
        IN IF CreateSessionRaises(kind) THEN
               /\ Respond(e, RouteFailure(request[e].route,
                                          ExcMessage(kind, SessionsUrl)))
               /\ inflight' = Settle(inflight, Call(e, "create_session", 0))
               /\ log' = Append(log, reply)
               /\ UNCHANGED <<frame, next_session>>
           ELSE
               /\ frame' = [frame EXCEPT ![e] = f1]
               /\ inflight' = Settle(inflight, Call(e, "create_session", 0))
                                \cup {Call(e, "query", 1)}
               /\ log' = log \o <<reply,
                                  Event("query", e, 1, QuerySession(f1),
                                        EndpointId(endpoint),
                                        StepPrompt(f1, 1), NoReply)>>
               /\ pc' = [pc EXCEPT ![e] = "submit_query"]
               /\ next_session' = next_session + 1
               /\ UNCHANGED response
    /\ clock' = clock + 1
    /\ sessions' = SessionsAfterCreate(SessionId(next_session))
    /\ UNCHANGED <<active, uniform, catalog_reply, workflows, request>>

\* the number of _submit_query awaits of an execute_* method
NumSteps(pipeline) == Len(PromptTemplates(pipeline))

\* await self._submit_query(...) of step k returns or raises; on a JSON body
\* the method stores it and runs on: to the query of step k + 1, or after
\* the last step to its return statement
QueryReply(e) ==
    /\ pc[e] = "submit_query"
    /\ LET f == frame[e]
           k == Len(f.results) + 1
       IN /\ Call(e, "query", k) \in inflight
          /\ \E env \in QueryReplies :
              LET f1 == [f EXCEPT !.results = Append(f.results, env)]
                  reply == Event("query_reply", e, k, f.session_id, None, << >>, env)
                  route == request[e].route
              IN /\ inflight' =
                        Settle(inflight, Call(e, "query", k))
                        \cup (IF /\ ~SubmitQueryRaises(env)
                                 /\ k < NumSteps(f.pipeline)
                                 /\ ~RenderRaises(PromptTemplates(f.pipeline)[k + 1],
                                                  f1.results)
                              THEN {Call(e, "query", k + 1)} ELSE {})
                 /\ IF SubmitQueryRaises(env) THEN
                        \* raise_for_status or the timeout raises in _submit_query
                        /\ Respond(e, RouteFailure(route,
                               ExcMessage(env.kind, QueryUrl(f.session_id))))
                        /\ log' = Append(log, reply)
                        /\ UNCHANGED frame
                    ELSE IF k < NumSteps(f.pipeline) THEN
                        /\ frame' = [frame EXCEPT ![e] = f1]
                        /\ IF RenderRaises(PromptTemplates(f.pipeline)[k + 1],
                                           f1.results)
                           THEN /\ Respond(e, RouteFailure(route,
                                       ExcMessage("null_data", << >>)))
                                /\ log' = Append(log, reply)
                           ELSE /\ log' = log \o <<reply,
                                       Event("query", e, k + 1, QuerySession(f1),
                                             EndpointId(StepEndpoints(f.pipeline)[k + 1]),
                                             StepPrompt(f1, k + 1), NoReply)>>
                                /\ UNCHANGED <<pc, response>>
                    ELSE
                        /\ frame' = [frame EXCEPT ![e] = f1]
                        /\ log' = Append(log, reply)
                        /\ IF ReturnRaises(f1)
                           THEN Respond(e, RouteFailure(route,
                                    ExcMessage("null_data", << >>)))
                           ELSE Respond(e, RouteSuccess(request[e],
                                    ExecutionResult(f1, clock + 1)))
    /\ clock' = clock + 1
    /\ UNCHANGED <<active, uniform, catalog_reply, workflows, sessions, request,
                   next_session>>

\* ------------------------------------------------------- the GET routes
\* GET /api/workflows/
ListWorkflows ==
    /\ catalog_reply' =
          [NoCatalogReply EXCEPT
              !.route = "list_workflows", !.path = "", !.status = 200,
              !.keys = {"success", "workflows", "total"}, !.success = TRUE,
              !.workflows = get_all_workflows, !.total = Len(get_all_workflows)]
    /\ UNCHANGED <<active, uniform, workflows, sessions, pc, request, frame, response,
                   inflight, log, next_session, clock>>

\* the response of the handler get_workflow of the routes module
GetWorkflowReply(wid) ==
    IF get_workflow(wid) = << >>
    THEN [NoCatalogReply EXCEPT
             !.route = "get_workflow", !.path = wid, !.workflow_id = wid,
             !.status = 404, !.keys = {"detail"},
             !.detail = <<"Workflow ", wid, " not found">>]
    ELSE [NoCatalogReply EXCEPT
             !.route = "get_workflow", !.path = wid, !.workflow_id = wid,
             !.status = 200, !.keys = {"success", "workflow"}, !.success = TRUE,
             !.workflow = get_workflow(wid)]

\* GET /api/workflows/{workflow_id}
GetWorkflowRoute ==
    /\ \E wid \in WorkflowIds :
        /\ catalog_reply' = GetWorkflowReply(wid)
        /\ workflows' = WorkflowsAfterGet(wid)
    /\ UNCHANGED <<active, uniform, sessions, pc, request, frame, response, inflight,
                   log, next_session, clock>>

\* the GET routes of the router in the order of their decorators; the router
\* serves a request with the first route its path matches
GetRouteTable ==
    <<[handler |-> "list_workflows", path |-> ""],
      [handler |-> "get_workflow", path |-> "{workflow_id}"],
      [handler |-> "workflows_health", path |-> "health"]>>

\* a path parameter matches any one non-empty segment, a literal matches itself
PathMatches(route, path) ==
    IF route.path = "{workflow_id}" THEN path # "" ELSE route.path = path

\* the handler that serves GET /api/workflows/<path>
Router(path) ==
    LET hits == SelectSeq(GetRouteTable, LAMBDA r : PathMatches(r, path))
    IN hits[1].handler

\* the response of the handler workflows_health
HealthReply ==
    [NoCatalogReply EXCEPT
        !.route = "workflows_health", !.path = "health", !.status = 200,
        !.keys = {"status", "workflows_available", "api_connected"},
        !.health = "healthy", !.workflows_available = WorkflowsAvailable,
        !.api_connected = TRUE]

\* GET /api/workflows/health
GetHealthPath ==
    /\ IF Router("health") = "workflows_health"
       THEN catalog_reply' = HealthReply /\ workflows' = workflows
       ELSE /\ catalog_reply' = GetWorkflowReply("health")
            /\ workflows' = WorkflowsAfterGet("health")
    /\ UNCHANGED <<active, uniform, sessions, pc, request, frame, response, inflight,
                   log, next_session, clock>>

\* ------------------------------------------------------ specification
TypeInit ==
    /\ catalog_reply = NoCatalogReply
    /\ workflows = WORKFLOWS
    /\ sessions = {}
    /\ pc = [e \in Execs |-> "idle"]
    /\ request = [e \in Execs |-> NoRequest]
    /\ frame = [e \in Execs |-> NoFrame]
    /\ response = [e \in Execs |-> NoResponse]
    /\ inflight = {}
    /\ log = << >>
    /\ next_session = 1
    /\ clock = 0

\* one route invocation at a time, any request body
Init == active = 1 /\ uniform = FALSE /\ TypeInit

Next ==
    \E e \in Execs :
        \/ ExecuteWorkflowRoute(e)
        \/ RunDnaProfiler(e)
        \/ RunExploitOracle(e)
        \/ RunThreatMesh(e)
        \/ SessionReply(e)
        \/ QueryReply(e)

Spec == Init /\ [][Next]_vars


\* two invocations of the generic route whose awaits interleave, under
\* uniform load
InitConcurrent == active = 2 /\ uniform = TRUE /\ TypeInit

NextConcurrent ==
    \E e \in Execs :
        \/ ExecuteWorkflowRoute(e)
        \/ SessionReply(e)
        \/ QueryReply(e)

SpecConcurrent == InitConcurrent /\ [][NextConcurrent]_vars

\* the GET routes served between the steps of one invocation under uniform load
InitCatalog == active = 1 /\ uniform = TRUE /\ TypeInit

NextCatalog ==
    \/ ListWorkflows
    \/ GetWorkflowRoute
    \/ GetHealthPath
    \/ Next

SpecCatalog == InitCatalog /\ [][NextCatalog]_vars

\* one invocation under uniform load whose remote calls are all answered in
\* the end: every httpx call returns or raises within its timeout, and the
\* event loop then resumes the awaiting coroutine
Fairness ==
    \A e \in Execs : WF_vars(SessionReply(e)) /\ WF_vars(QueryReply(e))

SpecFair == InitCatalog /\ [][Next]_vars /\ Fairness

\* ================================================== properties: helpers
\* positions of the log that hold an event ev of invocation e
EventsOf(e, ev) == { i \in DOMAIN log : log[i].exec = e /\ log[i].ev = ev }

\* how many queries invocation e has sent
QueryCount(e) == Cardinality(EventsOf(e, "query"))

\* how many remote calls (session creations and queries) invocation e has sent
RemoteCallCount(e) == Cardinality(EventsOf(e, "create_session")) + QueryCount(e)

\* the reply to step k of invocation e has arrived with a reply of kind in kinds
StepReplied(e, k, kinds) ==
    \E i \in EventsOf(e, "query_reply") : log[i].step = k /\ log[i].reply.kind \in kinds

\* the answer text the remote service returned for step k of invocation e
StepAnswer(e, k) ==
    LET i == CHOOSE i \in EventsOf(e, "query_reply") : log[i].step = k
    IN log[i].reply.answer

\* session creation of invocation e was answered with a reply of kind in kinds
SessionReplied(e, kinds) ==
    \E i \in EventsOf(e, "session_reply") : log[i].reply.kind \in kinds

Succeeded(e) == pc[e] = "done" /\ response[e].status = 200 /\ response[e].success

\* the steps the catalog declares for the pipeline invocation e runs
DeclaredSteps(e) == workflows[frame[e].pipeline].steps

\* ------------------------------------------------------------------ C1
\* C1: for every pipeline, when session creation and every query of an
\* invocation were answered successfully, the invocation returns a success
\* result whose steps_completed is the number of steps the catalog declares
\* for the pipeline and whose results hold exactly one entry per declared
\* step, in step order, entry k being the answer to the query of step k.
C1_AllStepsCompleted ==
    \A e \in Execs :
        (/\ frame[e].pipeline \in DOMAIN WORKFLOWS
         /\ SessionReplied(e, {"ok"})
         /\ \A k \in 1..Len(DeclaredSteps(e)) : StepReplied(e, k, {"ok"}))
        => /\ Succeeded(e)
           /\ response[e].steps_completed = Len(DeclaredSteps(e))
           /\ Len(response[e].results) = Len(DeclaredSteps(e))
           /\ \A k \in 1..Len(DeclaredSteps(e)) :
                 /\ response[e].results[k][2] = StepAnswer(e, k)
                 /\ \A j \in 1..Len(DeclaredSteps(e)) :
                       j # k => response[e].results[j][1] # response[e].results[k][1]

\* a threat_mesh run through the generic route whose four queries were all
\* answered, with three different answer texts
C1_Witness ==
    /\ Succeeded(1)
    /\ request[1].route = "execute_workflow"
    /\ frame[1].pipeline = "threat_mesh"
    /\ \A k \in 1..4 : StepReplied(1, k, {"ok"})
    /\ Cardinality({StepAnswer(1, k) : k \in 1..3}) = 3

\* ------------------------------------------------------------------ C2
\* a query of step k failed: error status or timeout
QueryFailed(e, k) == StepReplied(e, k, {"http_error", "timeout"})

\* the response names the step: a key for it, or its agent in the detail
ReportsFailedStep(resp, e, k) ==
    \/ "failed_step" \in resp.keys
    \/ Contains(resp.detail, <<DeclaredSteps(e)[k].agent>>)
    \/ Contains(resp.detail, <<ToString(k)>>)

\* C2: if the query of step k fails, the invocation fails with an error that
\* reports the completed-step count k - 1 and the failed step, exactly k
\* queries were sent and none for a later step.
C2_StepFailureReported ==
    \A e \in Execs : \A k \in 1..StepsCompleted :
        (pc[e] = "done" /\ QueryFailed(e, k))
        => /\ ~Succeeded(e)
           /\ "steps_completed" \in response[e].keys
           /\ response[e].steps_completed = k - 1
           /\ ReportsFailedStep(response[e], e, k)
           /\ QueryCount(e) = k
           /\ \A i \in EventsOf(e, "query") : log[i].step <= k

\* the part of C2 the code keeps: the failed invocation is answered with an
\* error, exactly k queries were sent and none for a later step
C2_NoLaterQueries ==
    \A e \in Execs : \A k \in 1..StepsCompleted :
        QueryFailed(e, k)
        => /\ pc[e] = "done" /\ ~Succeeded(e)
           /\ QueryCount(e) = k
           /\ \A i \in EventsOf(e, "query") : log[i].step <= k

\* ------------------------------------------------------------------ C3
\* C3: for every pipeline id that is not in the catalog, the generic execute
\* fails with not-found (404) and sends no remote call: no session creation,
\* no query; no method of the manager is entered and neither the catalog nor
\* the sessions table changes.
C3_UnknownPipelineNotFound ==
    \A e \in Execs :
        (/\ pc[e] # "idle"
         /\ request[e].route = "execute_workflow"
         /\ request[e].workflow_id \notin DOMAIN WORKFLOWS)
        => /\ pc[e] = "done"
           /\ response[e].status = 404
           /\ response[e].keys = {"detail"}
           /\ RemoteCallCount(e) = 0
           /\ \A c \in inflight : c.exec # e
           /\ frame[e] = NoFrame
           /\ workflows = WORKFLOWS
           /\ sessions = {}

\* an unknown id with an input that would pass the content check
C3_Witness ==
    /\ pc[1] = "done"
    /\ request[1].route = "execute_workflow"
    /\ request[1].workflow_id = "DNA_PROFILER"
    /\ ~TooShort(request[1].contract_code)
    /\ response[1].status = 404

\* ------------------------------------------------------------------ C4
\* the subject text is empty or has fewer than 10 characters after trimming:
\* every run of it that begins and ends with a non-blank is shorter than 10
BelowThreshold(code) ==
    \A i \in 1..Len(code) : \A j \in i..Len(code) :
        (~IsSpace(code[i]) /\ ~IsSpace(code[j])) => j - i + 1 < MinContent

\* C4 as stated: for every input payload below the threshold, the generic
\* execute fails with a validation error (400) and sends no remote call.
C4_ShortInputRejected ==
    \A e \in Execs :
        (/\ pc[e] # "idle"
         /\ request[e].route = "execute_workflow"
         /\ BelowThreshold(request[e].contract_code))
        => /\ pc[e] = "done"
           /\ response[e].status = 400
           /\ RemoteCallCount(e) = 0

\* C4 amended: for every known pipeline id and every input payload below the
\* threshold, the generic execute fails with a validation error (400) and
\* sends no remote call; no method of the manager is entered.
C4_ShortInputRejectedForKnownId ==
    \A e \in Execs :
        (/\ pc[e] # "idle"
         /\ request[e].route = "execute_workflow"
         /\ request[e].workflow_id \in DOMAIN WORKFLOWS
         /\ BelowThreshold(request[e].contract_code))
        => /\ pc[e] = "done"
           /\ response[e].status = 400
           /\ response[e].keys = {"detail"}
           /\ RemoteCallCount(e) = 0
           /\ frame[e] = NoFrame

\* a known id with nine characters between blanks: ten or more before strip()
C4_Witness ==
    /\ pc[1] = "done"
    /\ request[1].route = "execute_workflow"
    /\ request[1].workflow_id = "exploit_oracle"
    /\ Len(request[1].contract_code) >= MinContent
    /\ BelowThreshold(request[1].contract_code)
    /\ response[1].status = 400

\* ------------------------------------------------------------------ C5
\* C5: if the session-creation call fails (error status, timeout, or a body
\* without a session id), the invocation fails with an error response, no
\* step runs and no query is sent.
C5_SessionFailureStopsExecution ==
    \A e \in Execs :
        SessionReplied(e, {"http_error", "timeout", "no_id"})
        => /\ pc[e] = "done"
           /\ response[e].status = 500
           /\ response[e].keys = {"detail"}
           /\ QueryCount(e) = 0
           /\ frame[e].results = << >>
           /\ frame[e].session_id = None
           /\ \A c \in inflight : c.exec # e

\* session creation answered with a body that holds no session id
C5_Witness ==
    /\ pc[1] = "done"
    /\ SessionReplied(1, {"no_id"})
    /\ response[1].status = 500
    /\ QueryCount(1) = 0

\* ------------------------------------------------------------------ C6
\* the queries of invocation e that are sent and not yet answered
OutstandingQueries(e) == { c \in inflight : c.exec = e /\ c.op = "query" }

\* C6: within one invocation the steps are strictly sequential in declared
\* order: at most one query is outstanding at any time, the first query to
\* be sent is that of step 1, and the query of step n + 1 is sent only after
\* the response to step n has been received.
C6_StepsSequential ==
    \A e \in Execs :
        /\ Cardinality(OutstandingQueries(e)) <= 1
        /\ \A i \in EventsOf(e, "query") :
              /\ \A j \in EventsOf(e, "query") :
                    i < j <=> log[i].step < log[j].step
              /\ log[i].step > 1 =>
                    \E r \in EventsOf(e, "query_reply") :
                        r < i /\ log[r].step = log[i].step - 1
              /\ \A r \in EventsOf(e, "query_reply") :
                    log[r].step = log[i].step => i < r

\* the query of step 3 is outstanding, the replies to steps 1 and 2 are in
C6_Witness ==
    /\ OutstandingQueries(1) = {Call(1, "query", 3)}
    /\ StepReplied(1, 1, {"ok", "no_answer"})
    /\ StepReplied(1, 2, {"ok", "no_answer"})

\* ------------------------------------------------------------------ C7
\* the steps of invocation e whose query was answered with an answer text
AnsweredSteps(e) == { k \in 1..StepsCompleted : StepReplied(e, k, {"ok"}) }

\* the steps of invocation e whose query returned a JSON body
ReturnedSteps(e) ==
    { k \in 1..StepsCompleted : StepReplied(e, k, {"ok", "no_answer", "null_data"}) }

\* the prompt of the step of query event i, with every answer taken as empty:
\* the template text and the original input
PromptFrame(e, i) ==
    Render(PromptTemplates(frame[e].pipeline)[log[i].step], frame[e].language,
           frame[e].contract_code, frame[e].chains.list,
           [k \in 1..StepsCompleted |-> Envelope("no_answer", << >>)])

\* C7 as stated: the prompt submitted for step n contains verbatim the answer
\* text of every earlier step of the invocation and never contains the answer
\* text of step n or of a later step.
C7_PromptChaining ==
    \A e \in Execs : \A i \in EventsOf(e, "query") :
        /\ \A m \in AnsweredSteps(e) :
              m < log[i].step => Contains(log[i].prompt, StepAnswer(e, m))
        /\ \A m \in AnsweredSteps(e) :
              m >= log[i].step => ~Contains(log[i].prompt, StepAnswer(e, m))

\* C7 amended: the prompt submitted for step n contains verbatim the answer
\* text of every earlier step of the invocation; it is sent before the answer
\* of step n is received, and the answer text of step n or of a later step
\* occurs in it only where an earlier answer, the template or the original
\* input holds the same text.
C7_PromptChainsEarlierAnswers ==
    \A e \in Execs : \A i \in EventsOf(e, "query") :
        /\ \A m \in 1..(log[i].step - 1) : m \in ReturnedSteps(e)
        /\ \A m \in AnsweredSteps(e) :
              m < log[i].step => Contains(log[i].prompt, StepAnswer(e, m))
        /\ \A r \in EventsOf(e, "query_reply") :
              log[r].step >= log[i].step => i < r
        /\ \A m \in AnsweredSteps(e) :
              (m >= log[i].step /\ Contains(log[i].prompt, StepAnswer(e, m)))
              => \/ \E j \in AnsweredSteps(e) :
                       j < log[i].step /\ Contains(StepAnswer(e, j), StepAnswer(e, m))
                 \/ Contains(PromptFrame(e, i), StepAnswer(e, m))

\* the dna_profiler answers R1, R2, R3 to steps 1..3: the prompt of step 3
\* holds R1 and R2 and not R3
C7_Witness ==
    /\ frame[1].pipeline = "dna_profiler"
    /\ {1, 2, 3} \subseteq AnsweredSteps(1)
    /\ Cardinality({StepAnswer(1, k) : k \in 1..3}) = 3
    /\ \E i \in EventsOf(1, "query") :
          /\ log[i].step = 3
          /\ Contains(log[i].prompt, StepAnswer(1, 1))
          /\ Contains(log[i].prompt, StepAnswer(1, 2))
          /\ ~Contains(log[i].prompt, StepAnswer(1, 3))

\* ------------------------------------------------------------------ C8
\* the accumulator of the steps completed before step k: field and answer
PartialAccumulator(e, k) ==
    [i \in 1..(k - 1) |-> <<ResultFields(frame[e].pipeline)[i], StepAnswer(e, i)>>]

\* C8: when the query of step k fails after at least one step has completed,
\* the failure outcome delivered to the caller carries the partial
\* accumulator: the answers of steps 1..k-1 under their result fields.
C8_PartialAccumulatorCarried ==
    \A e \in Execs : \A k \in 2..StepsCompleted :
        (pc[e] = "done" /\ QueryFailed(e, k))
        => /\ "results" \in response[e].keys
           /\ response[e].results = PartialAccumulator(e, k)

\* ------------------------------------------------------------------ C9
\* invocation e ended on an exception of session creation: it never started
NeverStarted(e) ==
    pc[e] = "done" /\ SessionReplied(e, {"http_error", "timeout", "no_id"})

\* invocation e ended on an exception after its session was created
PartiallyCompleted(e) ==
    /\ pc[e] = "done" /\ SessionReplied(e, {"ok"})
    /\ \E k \in 1..StepsCompleted : StepReplied(e, k, {"http_error", "timeout", "null_data"})

\* the responses the route of invocation e gives when session creation fails
NeverStartedResponses(e) ==
    { RouteFailure(request[e].route, ExcMessage(kind, SessionsUrl)) :
        kind \in {"http_error", "timeout", "no_id"} }

\* the responses the route of invocation e gives when a step fails
StepFailureResponses(e) ==
    { RouteFailure(request[e].route, ExcMessage(kind, QueryUrl(sid))) :
        kind \in {"http_error", "timeout", "null_data"},
        sid \in {SessionId(n) : n \in 1..NumExecs} }

\* C9: every failure is surfaced to the caller, no failed invocation returns
\* a success result, and the failure outcome tells an invocation that never
\* started from one that partially completed: no response to a step failure
\* is also the response to a failed session creation, and conversely.
C9_FailuresDistinguishable ==
    \A e \in Execs :
        /\ (NeverStarted(e) \/ PartiallyCompleted(e))
              => ~Succeeded(e) /\ response[e].status = 500
        /\ PartiallyCompleted(e) => response[e] \notin NeverStartedResponses(e)
        /\ NeverStarted(e) => response[e] \notin StepFailureResponses(e)

\* the first half of C9, which the code keeps for the failures that raise
C9_RaisedFailuresSurfaced ==
    \A e \in Execs :
        (NeverStarted(e) \/ PartiallyCompleted(e))
        => ~Succeeded(e) /\ response[e].status = 500

\* ----------------------------------------------------------------- C10
\* the reply to step k of invocation e is a malformed envelope: a JSON body
\* from which no answer text can be extracted
MalformedReply(e, k) == StepReplied(e, k, {"no_answer", "null_data"})

\* C10: if the remote service answers the query of step k with a malformed
\* envelope, the whole invocation fails at that step: no later step is
\* queried and no success result is returned.
C10_MalformedEnvelopeFails ==
    \A e \in Execs : \A k \in 1..StepsCompleted :
        MalformedReply(e, k)
        => /\ pc[e] = "done"
           /\ ~Succeeded(e)
           /\ \A i \in EventsOf(e, "query") : log[i].step <= k

\* the malformed envelope the code does stop on: data is null
C10_NullDataFails ==
    \A e \in Execs : \A k \in 1..StepsCompleted :
        StepReplied(e, k, {"null_data"})
        => /\ pc[e] = "done"
           /\ ~Succeeded(e)
           /\ \A i \in EventsOf(e, "query") : log[i].step <= k

\* ----------------------------------------------------------------- C11
\* invocation e entered an execute_* method and was answered
Executed(e) == pc[e] = "done" /\ frame[e].pipeline \in DOMAIN WORKFLOWS

\* C11: a response whose steps_completed equals the number of steps of the
\* pipeline is produced only when every query returned an answer, and every
\* value of its results is the answer text returned by the query of the
\* corresponding step; a partial execution reports a steps_completed below
\* the number of steps.
C11_NoFabricatedResults ==
    \A e \in Execs :
        Executed(e)
        => LET n == Len(DeclaredSteps(e))
               full == /\ "steps_completed" \in response[e].keys
                       /\ response[e].steps_completed = n
           IN /\ full => \A k \in 1..n :
                    /\ StepReplied(e, k, {"ok"})
                    /\ response[e].results[k][2] = StepAnswer(e, k)
              /\ ~full => /\ "steps_completed" \in response[e].keys
                          /\ response[e].steps_completed < n

\* ----------------------------------------------------------------- C12
\* invocation e entered an execute_* method
Entered(e) == frame[e].pipeline \in DOMAIN WORKFLOWS

\* the session ids the remote service returned to invocation e
SessionHandles(e) ==
    { log[i].session_id : i \in { j \in EventsOf(e, "session_reply") :
                                      log[j].reply.kind = "ok" } }

\* the dict the execute_* method of a succeeded invocation e returned
ReturnedResult(e) == ExecutionResult(frame[e], response[e].execution_time)

\* C12: an invocation that enters an execute_* method makes exactly one
\* create-session call; the reply to it precedes the first query; every
\* query carries the session id that reply returned to this invocation; and
\* the result the method returns carries the same session id.
C12_OneSessionPerExecution ==
    \A e \in Execs :
        Entered(e)
        => /\ Cardinality(EventsOf(e, "create_session")) = 1
           /\ Cardinality(SessionHandles(e)) <= 1
           /\ \A q \in EventsOf(e, "query") :
                 \E c \in EventsOf(e, "create_session") :
                 \E r \in EventsOf(e, "session_reply") :
                     /\ c < r /\ r < q
                     /\ log[r].reply.kind = "ok"
                     /\ log[q].session_id = log[r].session_id
           /\ \A q \in EventsOf(e, "query_reply") :
                 log[q].session_id \in SessionHandles(e)
           /\ Succeeded(e)
              => /\ ReturnedResult(e).session_id \in SessionHandles(e)
                 /\ "session_id" \in response[e].keys
                    => response[e].session_id \in SessionHandles(e)

\* a threat_mesh run through its own route: four queries in the session the
\* remote service opened, and a result that carries the session id
C12_Witness ==
    /\ Succeeded(1)
    /\ request[1].route = "run_threat_mesh"
    /\ QueryCount(1) = StepsCompleted
    /\ SessionHandles(1) = {SessionId(1)}
    /\ response[1].session_id = SessionId(1)

\* ----------------------------------------------------------------- C13
\* the answer texts the remote service returned to invocation e
AnswersTo(e) ==
    { log[i].reply.answer : i \in { j \in EventsOf(e, "query_reply") :
                                        log[j].reply.kind = "ok" } }

\* the reply the remote service gave to the query of step k of invocation e
StepReply(e, k) ==
    LET i == CHOOSE i \in EventsOf(e, "query_reply") : log[i].step = k
    IN log[i].reply

\* C13: two invocations whose remote calls interleave are independent: their
\* session ids differ, no query of one carries the session id of the other,
\* the accumulator of each holds the replies to its own queries and nothing
\* else, and an answer text returned only to the other occurs in none of its
\* prompts and in none of its results.
C13_ConcurrentExecutionsIndependent ==
    \A e \in Execs :
        Entered(e)
        => /\ Len(frame[e].results) =
                 Cardinality({ i \in EventsOf(e, "query_reply") :
                                   ~SubmitQueryRaises(log[i].reply) })
           /\ \A k \in 1..Len(frame[e].results) : frame[e].results[k] = StepReply(e, k)
           /\ \A q \in EventsOf(e, "query") \cup EventsOf(e, "query_reply") :
                 log[q].session_id \in SessionHandles(e)
           /\ \A o \in Execs \ {e} :
                 Entered(o)
                 => /\ SessionHandles(e) \cap SessionHandles(o) = {}
                    /\ \A q \in EventsOf(e, "query") :
                          log[q].session_id \notin SessionHandles(o)
                    /\ \A a \in AnswersTo(o) \ AnswersTo(e) :
                          /\ \A q \in EventsOf(e, "query") : ~Contains(log[q].prompt, a)
                          /\ \A k \in 1..Len(response[e].results) :
                                response[e].results[k][2] # a

\* both invocations succeeded, the first was answered R1 four times and the
\* second R2 four times, and the second ran between the first query and the
\* last reply of the first
C13_Witness ==
    /\ Succeeded(1) /\ Succeeded(2)
    /\ AnswersTo(1) = {<<"R", "1">>}
    /\ AnswersTo(2) = {<<"R", "2">>}
    /\ \E a \in EventsOf(1, "query") : \E b \in EventsOf(1, "query_reply") :
          /\ log[a].step = 1 /\ log[b].step = StepsCompleted
          /\ \A i \in EventsOf(2, "create_session") \cup EventsOf(2, "query_reply") :
                a < i /\ i < b

\* ----------------------------------------------------------------- C14
\* the summaries of the definitions the class body declares, in their order
DeclaredSummaries ==
    [i \in 1..Len(WORKFLOW_ORDER) |->
        LET w == WORKFLOWS[WORKFLOW_ORDER[i]]
        IN [id |-> w.id, name |-> w.name, tagline |-> w.tagline,
            description |-> w.description, icon |-> w.icon, gradient |-> w.gradient,
            steps |-> w.steps]]

\* C14: whatever GET and execute routes have been served, with whatever
\* outcome, the catalog holds the definitions it was declared with, with
\* their step lists in their order, and a served list of workflows is the
\* list of summaries of those definitions in declaration order.
C14_CatalogReadOnly ==
    /\ workflows = WORKFLOWS
    /\ catalog_reply.route = "list_workflows"
       => /\ catalog_reply.workflows = DeclaredSummaries
          /\ catalog_reply.total = Len(WORKFLOW_ORDER)

\* the list was served in a run in which an execution succeeded
C14_Witness ==
    /\ Succeeded(1)
    /\ catalog_reply.route = "list_workflows"
    /\ Len(catalog_reply.workflows) = Len(WORKFLOW_ORDER)

\* the list was served in a run in which an execution failed at a query
C14_WitnessFailed ==
    /\ pc[1] = "done" /\ response[1].status = 500 /\ QueryCount(1) > 0
    /\ catalog_reply.route = "list_workflows"

\* ----------------------------------------------------------------- C15
\* the ids of the catalog
CatalogIds == { WORKFLOW_ORDER[i] : i \in 1..Len(WORKFLOW_ORDER) }

\* keys that would hold the state of an execution
ExecutionStateKeys ==
    {"session_id", "results", "execution_time", "steps_completed", "success"}

\* C15: the lookup of an id returns a definition exactly when the id is one of
\* the catalog ids, character for character, and that definition has the id;
\* for every other id it returns not-found (the route answers 404).  The list
\* holds one summary per definition, in catalog order, each with the id,
\* name, tagline, description and ordered steps of its definition and no key
\* of an execution.
C15_CatalogLookup ==
    /\ \A id \in WorkflowIds :
          /\ get_workflow(id) # << >> <=> id \in CatalogIds
          /\ get_workflow(id) # << >> => get_workflow(id)[1].id = id
    /\ catalog_reply.route = "get_workflow"
       => IF catalog_reply.workflow_id \in CatalogIds
          THEN /\ catalog_reply.status = 200
               /\ Len(catalog_reply.workflow) = 1
               /\ catalog_reply.workflow[1].id = catalog_reply.workflow_id
               /\ catalog_reply.workflow[1] = WORKFLOWS[catalog_reply.workflow_id]
          ELSE /\ catalog_reply.status = 404
               /\ catalog_reply.workflow = << >>
               /\ "workflow" \notin catalog_reply.keys
    /\ catalog_reply.route = "list_workflows"
       => /\ Len(catalog_reply.workflows) = Cardinality(CatalogIds)
          /\ \A i \in 1..Len(catalog_reply.workflows) :
                LET s == catalog_reply.workflows[i]
                    w == WORKFLOWS[WORKFLOW_ORDER[i]]
                IN /\ s.id = WORKFLOW_ORDER[i]
                   /\ s.name = w.name /\ s.tagline = w.tagline
                   /\ s.description = w.description /\ s.steps = w.steps
                   /\ DOMAIN s \cap ExecutionStateKeys = {}

\* the definition of threat_mesh was looked up through the route
C15_Witness ==
    /\ catalog_reply.route = "get_workflow"
    /\ catalog_reply.workflow_id = "threat_mesh"
    /\ catalog_reply.status = 200
    /\ catalog_reply.workflow[1].id = "threat_mesh"

\* an id that differs from a catalog id in case only was looked up
C15_WitnessOtherCase ==
    /\ catalog_reply.route = "get_workflow"
    /\ catalog_reply.workflow_id = "DNA_PROFILER"
    /\ catalog_reply.status = 404

\* ----------------------------------------------------------------- C16
\* the request names a pipeline the catalog does not hold
UnknownPipeline(req) ==
    req.route = "execute_workflow" /\ req.workflow_id \notin CatalogIds

\* every query of invocation e was answered with a body: no step failed
AllStepsCompleted(e) ==
    \A k \in 1..StepsCompleted :
        StepReplied(e, k, {"ok", "no_answer"}) /\ ~QueryFailed(e, k)

\* C16: the response of an execute route follows the kind of failure: 404 for
\* an unknown pipeline id, 400 for an input below the minimum-content
\* threshold, 500 for a failed session creation or a failed step, and a
\* success response only when all steps completed.
C16_StatusByFailureKind ==
    \A e \in Execs :
        pc[e] = "done"
        => /\ UnknownPipeline(request[e]) => response[e].status = 404
           /\ (~UnknownPipeline(request[e]) /\ BelowThreshold(request[e].contract_code))
              => response[e].status = 400
           /\ (NeverStarted(e) \/ PartiallyCompleted(e)) => response[e].status = 500
           /\ Succeeded(e) => AllStepsCompleted(e)

\* the part of C16 the code keeps: the mapping holds on the generic route, and
\* on every route a failed session creation or step gives 500 and success is
\* returned only when all steps completed
C16_StatusByFailureKindGenericRoute ==
    \A e \in Execs :
        pc[e] = "done"
        => /\ UnknownPipeline(request[e]) => response[e].status = 404
           /\ (/\ request[e].route = "execute_workflow"
               /\ ~UnknownPipeline(request[e])
               /\ BelowThreshold(request[e].contract_code))
              => response[e].status = 400
           /\ (NeverStarted(e) \/ PartiallyCompleted(e)) => response[e].status = 500
           /\ Succeeded(e) => AllStepsCompleted(e)

\* ----------------------------------------------------------------- C17
\* the steps for which invocation e has sent a query
QueriedSteps(e) == { log[i].step : i \in EventsOf(e, "query") }

\* C17: nothing is memoized or reused across executions.  Each invocation that
\* runs a pipeline makes its own create-session call and sends one query per
\* step, all of them when it succeeds, also when an earlier invocation ran the
\* same pipeline on the same input; it is given a session id no other
\* invocation has, its results are the answers to its own queries, and the
\* sessions table of the manager stays empty.
C17_NoSessionReuse ==
    /\ sessions = {}
    /\ \A e \in Execs :
          Entered(e)
          => /\ Cardinality(EventsOf(e, "create_session")) = 1
             /\ Cardinality(QueriedSteps(e)) = QueryCount(e)
             /\ Succeeded(e)
                => /\ QueriedSteps(e) = 1..StepsCompleted
                   /\ \A k \in 1..StepsCompleted :
                         response[e].results[k][2] = StepAnswer(e, k)
             /\ \A o \in Execs \ {e} :
                   Entered(o)
                   => /\ SessionHandles(e) \cap SessionHandles(o) = {}
                      /\ \A q \in EventsOf(e, "query") :
                            log[q].session_id \notin SessionHandles(o)

\* the same pipeline ran twice on the same request, the second run after the
\* first had returned: each run created a session and sent four queries, the
\* first was answered R1 and the second R2
C17_Witness ==
    /\ Succeeded(1) /\ Succeeded(2)
    /\ request[1] = request[2]
    /\ \A i \in EventsOf(1, "query_reply") : \A j \in EventsOf(2, "create_session") : i < j
    /\ QueryCount(1) = StepsCompleted /\ QueryCount(2) = StepsCompleted
    /\ AnswersTo(1) = {<<"R", "1">>}
    /\ \A k \in 1..StepsCompleted : response[2].results[k][2] = <<"R", "2">>

\* ----------------------------------------------------------------- C18
\* the position in the log of the query of step k of invocation e
QueryOf(e, k) == CHOOSE i \in EventsOf(e, "query") : log[i].step = k

\* the answers extracted from the replies to the steps of invocation e
\* before step k
PriorAnswers(e, k) == [m \in 1..(k - 1) |-> Answer(StepReply(e, m))]

\* what the prompt of step k of invocation e is composed from: the pipeline,
\* the step, the original input and the prior answers
PromptInputs(e, k) ==
    <<frame[e].pipeline, k, frame[e].contract_code, frame[e].language,
      frame[e].chains, PriorAnswers(e, k)>>

\* C18: prompt composition is deterministic: the queries of two invocations
\* for the same step of the same pipeline, with the same original input and
\* the same prior answers, carry the same prompt, whatever the session and
\* the time they are sent at.
C18_PromptDeterministic ==
    \A e \in Execs : \A o \in Execs \ {e} :
        (Entered(e) /\ Entered(o))
        => \A k \in QueriedSteps(e) \cap QueriedSteps(o) :
              PromptInputs(e, k) = PromptInputs(o, k)
              => log[QueryOf(e, k)].prompt = log[QueryOf(o, k)].prompt

\* the two invocations were both answered R1 then R2, and their queries of
\* step 3, sent at different times in different sessions, carry one prompt
C18_Witness ==
    /\ {1, 2, 3} \subseteq QueriedSteps(1) \cap QueriedSteps(2)
    /\ PriorAnswers(1, 3) = << <<"R", "1">>, <<"R", "2">> >>
    /\ PromptInputs(1, 3) = PromptInputs(2, 3)
    /\ log[QueryOf(1, 3)].session_id # log[QueryOf(2, 3)].session_id
    /\ log[QueryOf(1, 3)].at # log[QueryOf(2, 3)].at
    /\ log[QueryOf(1, 3)].prompt = log[QueryOf(2, 3)].prompt

\* ----------------------------------------------------------------- C19
\* the times of the remote calls and replies of invocation e
TrafficTimes(e) == { log[i].at : i \in { j \in DOMAIN log : log[j].exec = e } }

\* C19: the execution_time of a successful execution is read when the result
\* is assembled: after the reply to the query of the last step was received,
\* and so after session creation and after every query of the execution.
C19_TimestampAtAssembly ==
    \A e \in Execs :
        Succeeded(e)
        => /\ "execution_time" \in response[e].keys
           /\ \E i \in EventsOf(e, "query_reply") :
                 /\ log[i].step = StepsCompleted
                 /\ log[i].at < response[e].execution_time
           /\ \A t \in TrafficTimes(e) : t < response[e].execution_time

\* a successful exploit_oracle run: session creation, four queries and four
\* replies, all of them earlier than the execution_time of the response
C19_Witness ==
    /\ Succeeded(1)
    /\ frame[1].pipeline = "exploit_oracle"
    /\ Cardinality(TrafficTimes(1)) > StepsCompleted
    /\ \A t \in TrafficTimes(1) : t < response[1].execution_time

\* ----------------------------------------------------------------- C20
\* the endpoint identifiers of ENDPOINTS
ConfiguredEndpointIds == { ENDPOINTS[n] : n \in DOMAIN ENDPOINTS }

\* the definition in the catalog of the step the query at position q is for
QueriedStep(q) == workflows[frame[log[q].exec].pipeline].steps[log[q].step]

HoldsOriginalInput(q) ==
    /\ Contains(log[q].prompt, frame[log[q].exec].contract_code)
    /\ Contains(log[q].prompt, frame[log[q].exec].language)

\* C21: the prompt of every step of every pipeline contains the original
\* input verbatim, the contract code and the language tag, not only the
\* prompt of the first step.
C21_EveryPromptHoldsInput ==
    \A q \in DOMAIN log : log[q].ev = "query" => HoldsOriginalInput(q)

\* the part of C21 the code keeps: the prompt of the first step of every
\* pipeline, and of the second step of exploit_oracle and threat_mesh, holds
\* the contract code and the language tag
C21_FirstPromptHoldsInput ==
    \A q \in DOMAIN log :
        (/\ log[q].ev = "query"
         /\ \/ log[q].step = 1
            \/ /\ log[q].step = 2
               /\ frame[log[q].exec].pipeline \in {"exploit_oracle", "threat_mesh"})
        => HoldsOriginalInput(q)

\* ----------------------------------------------------------------- C22
\* C22: every route that starts a pipeline execution, the generic one and the
\* three pipeline routes, checks the minimum content first: no create-session
\* call and no query is made for a contract code whose stripped text is
\* shorter than MinContent characters.
C22_NoRemoteCallForShortInput ==
    \A e \in Execs :
        (pc[e] # "idle" /\ BelowThreshold(request[e].contract_code))
        => /\ RemoteCallCount(e) = 0
           /\ ~Entered(e)

\* the part of C22 the code keeps: the generic route makes no remote call for
\* such an input
C22_GenericRouteChecksContent ==
    \A e \in Execs :
        (/\ pc[e] # "idle"
         /\ request[e].route = "execute_workflow"
         /\ BelowThreshold(request[e].contract_code))
        => /\ RemoteCallCount(e) = 0
           /\ ~Entered(e)
           /\ pc[e] = "done" /\ response[e].status \in {400, 404}

\* ----------------------------------------------------------------- C23
\* the ids execute_workflow of the manager dispatches to an execute_* method
DispatchedIds ==
    { id \in WorkflowIds : Dispatch(id, [chains |-> NoChains]).pipeline # "ValueError" }

\* the ids get_workflow returns a definition for
DefinedIds == { id \in WorkflowIds : get_workflow(id) # << >> }

\* the response of the generic route to the ValueError of the dispatcher
UnknownWorkflowResponse(workflow_id) ==
    RouteFailure("execute_workflow", <<"Unknown workflow: ", workflow_id>>)

\* C23: the catalog and the dispatcher agree: get_workflow returns a
\* definition for exactly the ids execute_workflow dispatches to a pipeline,
\* each to the pipeline of that id; so no request of the generic route that
\* passed the not-found check is answered with the dispatcher's unknown
\* workflow error, and the workflow_id of a result is the requested id.
C23_CatalogAndDispatcherAgree ==
    /\ DefinedIds = DispatchedIds
    /\ \A id \in DispatchedIds : Dispatch(id, [chains |-> NoChains]).pipeline = id
    /\ \A e \in Execs :
          (pc[e] # "idle" /\ request[e].route = "execute_workflow")
          => /\ response[e] # UnknownWorkflowResponse(request[e].workflow_id)
             /\ Entered(e) => frame[e].pipeline = request[e].workflow_id
             /\ Succeeded(e)
                => /\ response[e].workflow_id = request[e].workflow_id
                   /\ ReturnedResult(e).workflow_id = request[e].workflow_id

\* a request for threat_mesh passed the not-found check, was dispatched and
\* returned a result under the requested id
C23_Witness ==
    /\ Succeeded(1)
    /\ request[1].route = "execute_workflow"
    /\ request[1].workflow_id = "threat_mesh"
    /\ response[1].workflow_id = "threat_mesh"
    /\ ReturnedResult(1).workflow_id = "threat_mesh"

\* ----------------------------------------------------------------- C24
\* invocation e is inside an execute_* method, at an await
Running(e) == pc[e] \in {"create_session", "submit_query"}

\* the remote calls of invocation e that are outstanding
Outstanding(e) == { c \in inflight : c.exec = e }

\* the entries of the log that belong to invocation e
TrafficOf(e) == { i \in DOMAIN log : log[i].exec = e }

\* C24: every execution terminates: when every remote call returns or fails
\* in the end, an invocation that entered an execute_* method ends; it makes
\* at most one create-session call and at most one query per declared step;
\* it ends in one outcome, a result or an error, which is not replaced; and
\* after the outcome no remote call of it is outstanding or made.
C24_ExecutionTerminates ==
    /\ \A e \in Execs : Running(e) ~> (pc[e] = "done" /\ response[e].status # 0)
    /\ [](\A e \in Execs :
            /\ Cardinality(EventsOf(e, "create_session")) <= 1
            /\ Entered(e) => QueryCount(e) <= Len(DeclaredSteps(e))
            /\ pc[e] = "done" => Outstanding(e) = {})
    /\ [][\A e \in Execs :
            pc[e] = "done"
            => /\ pc'[e] = "done"
               /\ response'[e] = response[e]
               /\ { i \in DOMAIN log' : log'[i].exec = e } = TrafficOf(e)]_vars

\* an execution ended with an error after its third query failed
C24_Witness ==
    /\ pc[1] = "done" /\ response[1].status = 500
    /\ QueryCount(1) = 3 /\ QueryFailed(1, 3)
    /\ Outstanding(1) = {}

\* ----------------------------------------------------------------- C25
\* the chains a request asks for: its own non-empty list, else the defaults
RequestedChains(req) ==
    IF req.chains.present /\ req.chains.list # << >>
    THEN req.chains.list ELSE DEFAULT_CHAINS

\* C25: threat_mesh never analyses an empty list of chains: the step-1 prompt
\* names the non-empty list of the request, or the five default chains when
\* the request has no list, null or an empty list, and the result of the
\* execute method reports the same list as chains_analyzed; through the
\* generic route and through the threat-mesh route.
C25_ChainsNeverEmpty ==
    \A e \in Execs :
        (frame[e].pipeline = "threat_mesh" /\ 1 \in QueriedSteps(e))
        => LET chains == RequestedChains(request[e])
               prompt == log[QueryOf(e, 1)].prompt
           IN /\ chains # << >>
              /\ frame[e].chains.list = chains
              /\ Contains(prompt, Join(<<", ">>, chains))
              /\ chains # DEFAULT_CHAINS
                 => ~Contains(prompt, Join(<<", ">>, DEFAULT_CHAINS))
              /\ Succeeded(e)
                 => /\ ReturnedResult(e).chains_analyzed = chains
                    /\ "chains_analyzed" \in response[e].keys
                       => response[e].chains_analyzed = chains

\* the generic route ran threat_mesh on the chains of the request
C25_Witness ==
    /\ Succeeded(1)
    /\ request[1].route = "execute_workflow"
    /\ request[1].workflow_id = "threat_mesh"
    /\ request[1].chains = SomeChains(<<"sui", "aptos">>)
    /\ ReturnedResult(1).chains_analyzed = <<"sui", "aptos">>

\* the threat-mesh route ran on the default chains for an empty list
C25_WitnessEmptyList ==
    /\ Succeeded(1)
    /\ request[1].route = "run_threat_mesh"
    /\ request[1].chains = SomeChains(<< >>)
    /\ response[1].chains_analyzed = DEFAULT_CHAINS

\* ----------------------------------------------------------------- C26
\* C26: the generic route resolves the pipeline before it validates the input:
\* a request with an unknown id is answered 404 whatever its contract code,
\* also one below the minimum content; a request with a known id and such a
\* contract code is answered 400; and in both cases no remote call is made.
C26_LookupBeforeValidation ==
    \A e \in Execs :
        (pc[e] # "idle" /\ request[e].route = "execute_workflow")
        => /\ UnknownPipeline(request[e])
              => /\ pc[e] = "done" /\ response[e].status = 404
                 /\ RemoteCallCount(e) = 0 /\ Outstanding(e) = {}
           /\ (~UnknownPipeline(request[e]) /\ BelowThreshold(request[e].contract_code))
              => /\ pc[e] = "done" /\ response[e].status = 400
                 /\ RemoteCallCount(e) = 0 /\ Outstanding(e) = {}

\* a request with an unknown id and an empty contract code was answered 404
C26_Witness ==
    /\ pc[1] = "done"
    /\ request[1].route = "execute_workflow"
    /\ request[1].workflow_id = "unknown_flow"
    /\ request[1].contract_code = << >>
    /\ response[1].status = 404
    /\ log = << >>

\* ----------------------------------------------------------------- C27
\* C27: a GET for the path health under the workflows router is answered by
\* the health handler, with status healthy and workflows_available equal to
\* the number of catalog entries; it is not answered by get_workflow.
C27_HealthServedByHealthHandler ==
    catalog_reply.path = "health"
    => /\ catalog_reply.route = "workflows_health"
       /\ catalog_reply.route # "get_workflow"
       /\ catalog_reply.status = 200
       /\ catalog_reply.health = "healthy"
       /\ catalog_reply.workflows_available = Cardinality(CatalogIds)

\* what the code does for GET health: get_workflow serves it with the id
\* health, which the catalog does not hold, and answers 404
C27_HealthShadowedByLookup ==
    catalog_reply.path = "health"
    => /\ catalog_reply.route = "get_workflow"
       /\ catalog_reply.workflow_id = "health"
       /\ catalog_reply.status = 404

\* the response of the health handler, were it reached, counts the catalog
C27_HealthCountsCatalog ==
    /\ HealthReply.health = "healthy"
    /\ HealthReply.workflows_available = Cardinality(DOMAIN workflows)

\* ----------------------------------------------------------------- C28
\* endpoint names _submit_query may be given: those of the table and others
EndpointNames == DOMAIN ENDPOINTS \cup {"gpt4", "GPT4O", ""}

\* the endpoint name the execute method passes for the query at position q
EndpointNameOf(q) == StepEndpoints(frame[log[q].exec].pipeline)[log[q].step]

\* C28: _submit_query resolves the endpoint name through ENDPOINTS and falls
\* back to the identifier of gpt4o for a name the table does not hold; every
\* name the three pipelines pass is in the table, so no query of a pipeline
\* execution takes the fallback.
C28_FallbackNeverTaken ==
    /\ \A name \in EndpointNames :
          /\ name \in DOMAIN ENDPOINTS => EndpointId(name) = ENDPOINTS[name]
          /\ name \notin DOMAIN ENDPOINTS => EndpointId(name) = ENDPOINTS["gpt4o"]
    /\ \A p \in DOMAIN WORKFLOWS : \A k \in 1..NumSteps(p) :
          StepEndpoints(p)[k] \in DOMAIN ENDPOINTS
    /\ \A q \in DOMAIN log :
          log[q].ev = "query"
          => /\ EndpointNameOf(q) \in DOMAIN ENDPOINTS
             /\ log[q].endpoint_id = ENDPOINTS["gpt4o"] => EndpointNameOf(q) = "gpt4o"
             /\ \A name \in DOMAIN ENDPOINTS :
                   log[q].endpoint_id = ENDPOINTS[name] <=> name = EndpointNameOf(q)

\* the query of step 3 of exploit_oracle went to the grok endpoint
C28_Witness ==
    \E q \in EventsOf(1, "query") :
        /\ frame[1].pipeline = "exploit_oracle"
        /\ log[q].step = 3
        /\ EndpointNameOf(q) = "grok"
        /\ log[q].endpoint_id = ENDPOINTS["grok"]

====
